---- MODULE Spec2Model ----
(***************************************************************************)
(* Order ingestion of the OpenDao order book: save() runs handleOrder over *)
(* a batch under a p-limit of 20, collects outcomes and rows, bulk-inserts *)
(* the rows with ON CONFLICT DO NOTHING and enqueues new-order events.     *)
(*                                                                         *)
(* One action is one stretch of code between two awaits.  A database query *)
(* is evaluated in the step that resumes after it; the orders table can be *)
(* written by another process between any two steps.                       *)
(*                                                                         *)
(* Spec    : batches handled concurrently, replays, another writer.        *)
(* SpecSeq : successive calls of one order each, over listings that differ *)
(*           in what the table queries read.                               *)
(* SpecOne : one call of one order, the clock running, over orders that    *)
(*           differ in what the checks and the price computation read.     *)
(* SpecFan : one call of a batch as long as the limit of p-limit or longer.*)
(* SpecSources : callers of one process resolving source tokens through    *)
(*           the Sources registry (models/sources).                        *)
(* SpecBlocks : calls into the block store.                                *)
(***************************************************************************)
EXTENDS Integers, Sequences, FiniteSets, TLC

VARIABLES
    orders,       \* the orders table: a set of rows
    now,          \* Math.floor(Date.now() / 1000)
    calls,        \* save calls started so far
    otherWrites,  \* rows other processes tried to insert so far
    pc,           \* position of the current save call
    batch,        \* orderInfos of the current save call
    relay,        \* relayToArweave of the current save call
    task,         \* per batch position: the state of its handleOrder
    results,      \* results of the current save call
    orderValues,  \* orderValues of the current save call
    arweaveData,  \* arweaveData of the current save call
    queue,        \* events handed to ordersUpdateById.addToQueue
    relayed,      \* entries handed to arweaveRelay.addPendingOrdersOpenDao
    before,       \* history: the orders table when the current call began
    prev,         \* history: batch, results and before of the call before
    sources_v2,   \* the sources_v2 table: a set of rows
    nextId,       \* the sequence behind sources_v2.id
    cache,        \* the redis key "sources"
    instance,     \* Sources.instance
    call,         \* per caller: its call into Sources and where it stands
    requests,     \* calls into Sources started so far
    rand,         \* random addresses drawn so far
    resolved,     \* history: per token, the id first returned for it
    blocks,       \* the blocks table: a set of (hash, number) rows
    lastOp        \* history: the last call into the block store

saveVars == <<orders, now, calls, otherWrites, pc, batch, relay, task, results,
              orderValues, arweaveData, queue, relayed, before, prev>>

registryVars == <<sources_v2, nextId, cache, instance, call, requests, rand, resolved>>

blockVars == <<blocks, lastOp>>

vars == <<saveVars, registryVars, blockVars>>

-----------------------------------------------------------------------------
(* Bounds of the model *)

MaxCalls == 2
MaxBatch == 2
MaxOtherWrites == 1
MaxNow == 2
MaxAmount == 2
MaxQuantity == 2
FanBatch == 22
MaxRacing == 2
MaxCallers == 2
MaxRequests == 5
MaxNumber == 2

(* Program constants *)

ConcurrencyLimit == 20
MaxFeeBps == 10000

AddressZero == "0x0"
Weth == "weth"
Eth == "0xeee"
Dai == "dai"

BUY == "BUY"
SELL == "SELL"

-----------------------------------------------------------------------------
(* Raw orders: Sdk.OpenDao.Types.BaseOrder as save reads it.  wellFormed   *)
(* and signature stand for what checkValidity and checkSignature decide.   *)

RECURSIVE SumSeq(_)
SumSeq(s) == IF s = <<>> THEN 0 ELSE Head(s) + SumSeq(Tail(s))

MkOrder(maker, nonce, nft, kind, dir, token, amount, fees, qty, taker, expiry, wf, sig) ==
    [maker |-> maker, nonce |-> nonce, nft |-> nft, kind |-> kind,
     direction |-> dir, erc20Token |-> token, erc20TokenAmount |-> amount,
     fees |-> fees, nftAmount |-> qty, taker |-> taker, expiry |-> expiry,
     wellFormed |-> wf, signature |-> sig]

\* order.hash(): a digest of the signed fields; the signature is not one.
hash(o) ==
    <<o.maker, o.nonce, o.nft, o.kind, o.direction, o.erc20Token,
      o.erc20TokenAmount, o.fees, o.nftAmount, o.taker, o.expiry, o.wellFormed>>

\* commonHelpers.getContractKind: the contracts table, fixed during a run.
getContractKind(nft) ==
    CASE nft = "c721" -> "erc721"
      [] nft = "c1155" -> "erc1155"
      [] OTHER -> "null"

\* order.getFeeAmount(): the sum of the declared fee amounts.
getFeeAmount(o) == SumSeq(o.fees)

side(o) == IF o.direction = BUY THEN "buy" ELSE "sell"

IsErc1155Kind(o) == o.kind \in {"erc1155-single-token", "erc1155-contract-wide"}

IsSingleToken(o) == o.kind \in {"erc721-single-token", "erc1155-single-token"}

\* let price = bn(erc20TokenAmount).add(feeAmount), per item for erc1155
totalPrice(o) == o.erc20TokenAmount + getFeeAmount(o)

\* Variant: the price is left as the total of the order.
priceOfTotal(o) == totalPrice(o)

price(o) ==
    IF IsErc1155Kind(o) THEN totalPrice(o) \div o.nftAmount ELSE totalPrice(o)

\* Variant: the fee is taken off the value on both sides.
valueNet(o) ==
    LET v == totalPrice(o) - getFeeAmount(o)
    IN  IF IsErc1155Kind(o) THEN v \div o.nftAmount ELSE v

value(o) ==
    LET v == IF side(o) = "buy" THEN totalPrice(o) - getFeeAmount(o) ELSE totalPrice(o)
    IN  IF IsErc1155Kind(o) THEN v \div o.nftAmount ELSE v

\* feeAmount.mul(10000).div(price): BigNumber.div throws on a zero divisor.
DivThrows(o) == price(o) = 0

\* Variant: the fee is set against the total, not the price of one item.
feeBpsOfTotal(o) == (getFeeAmount(o) * 10000) \div totalPrice(o)

feeBps(o) == (getFeeAmount(o) * 10000) \div price(o)

feeBreakdown(o) ==
    [i \in 1..Len(o.fees) |->
        [kind |-> "royalty", bps |-> (o.fees[i] * 10000) \div price(o)]]

FeesTooHigh(o) == feeBps(o) > MaxFeeBps

\* The row handleOrder pushes onto orderValues.
Row(o, kind, fillabilityStatus, approvalStatus) ==
    [id |-> hash(o),
     kind |-> <<"opendao", kind>>,
     side |-> side(o),
     fillability_status |-> fillabilityStatus,
     approval_status |-> approvalStatus,
     token_set_id |-> <<"token", o.nft>>,
     maker |-> o.maker,
     taker |-> AddressZero,
     price |-> price(o),
     value |-> value(o),
     quantity_remaining |-> o.nftAmount,
     nonce |-> o.nonce,
     contract |-> o.nft,
     fee_bps |-> feeBps(o),
     fee_breakdown |-> feeBreakdown(o),
     expiration |-> o.expiry]

-----------------------------------------------------------------------------
(* The queries and checks of handleOrder *)

\* Variant: the lookup is keyed by the raw order, not by its hash.
orderExistsUnhashed(o) == \E r \in orders : r.id = o

\* SELECT 1 FROM orders WHERE orders.id = $/id/
orderExists(o) == \E r \in orders : r.id = hash(o)

\* The two nonce queries.
nonceExists(o, kind) ==
    IF kind = "erc1155"
    THEN \E r \in orders :
            /\ r.kind = <<"opendao", "erc1155">>
            /\ r.maker = o.maker
            /\ r.nonce = o.nonce
    ELSE \E r \in orders :
            /\ r.kind = <<"opendao", "erc721">>
            /\ r.maker = o.maker
            /\ r.nonce = o.nonce
            /\ r.contract = o.nft
            /\ r.price = o.erc20TokenAmount

\* Variant: an order is still live in the second it expires.
ExpiredAfter(o) == now > o.expiry

Expired(o) == now >= o.expiry

BuyTokenUnsupported(o) == o.direction = BUY /\ o.erc20Token # Weth

\* The second payment check tests BUY as well.
SellTokenUnsupported(o) == o.direction = BUY /\ o.erc20Token # Eth

\* Variant: the payment token is not looked at.
SyncChecksNoPayment(o) ==
    CASE Expired(o) -> "expired"
      [] o.taker # AddressZero -> "unsupported-taker"
      [] ~o.wellFormed -> "invalid"
      [] o.signature # "good" -> "invalid-signature"
      [] OTHER -> "pass"

\* The checks between the nonce query and offChainCheck, none of which awaits:
\* the status of the first that fails, or "pass".
SyncChecks(o) ==
    CASE Expired(o) -> "expired"
      [] BuyTokenUnsupported(o) -> "unsupported-payment-token"
      [] SellTokenUnsupported(o) -> "unsupported-payment-token"
      [] o.taker # AddressZero -> "unsupported-taker"
      [] ~o.wellFormed -> "invalid"
      [] o.signature # "good" -> "invalid-signature"
      [] OTHER -> "pass"

\* What offChainCheck can do: return, or throw one of these messages.
CheckerOutcomes ==
    {"ok", "no-balance-no-approval", "no-approval", "no-balance", "other"}

\* Variant: the message of the checker is not looked at.
fillabilityAlways(outcome) == "fillable"

fillabilityOf(outcome) ==
    IF outcome \in {"no-balance-no-approval", "no-balance"} THEN "no-balance" ELSE "fillable"

approvalOf(outcome) ==
    IF outcome \in {"no-balance-no-approval", "no-approval"} THEN "no-approval" ELSE "approved"

-----------------------------------------------------------------------------
(* The fan-out: p-limit runs at most ConcurrencyLimit handlers, in order *)

NewTask ==
    [pc |-> "queued", kind |-> "null", checker |-> "none",
     status |-> "none", thrown |-> FALSE, at |-> 0]

Active(t) == {i \in DOMAIN t : t[i].pc \notin {"queued", "done"}}

Queued(t) == {i \in DOMAIN t : t[i].pc = "queued"}

Min(S) == CHOOSE x \in S : \A y \in S : x <= y

\* Variant: Promise.all over the handlers with no limiter.
ScheduleAll(t) ==
    [i \in DOMAIN t |-> IF t[i].pc = "queued" THEN [t[i] EXCEPT !.pc = "exists"] ELSE t[i]]

\* p-limit's next(): start queued handlers while a slot is free.
RECURSIVE Schedule(_)
Schedule(t) ==
    IF Queued(t) # {} /\ Cardinality(Active(t)) < ConcurrencyLimit
    THEN Schedule([t EXCEPT ![Min(Queued(t))].pc = "exists"])
    ELSE t

\* handleOrder returns results.push({id, status}).  t is task with the
\* handler's locals as they are at the return.
Finish(t, i, status) ==
    /\ results' = Append(results, [id |-> hash(batch[i]), status |-> status])
    /\ task' = Schedule([t EXCEPT ![i].pc = "done", ![i].status = status])

\* The catch of handleOrder: the error is logged and no outcome is pushed.
Drop(i) == task' = Schedule([task EXCEPT ![i].pc = "done", ![i].thrown = TRUE])

Goto(i, where) == task' = [task EXCEPT ![i].pc = where]

-----------------------------------------------------------------------------
(* The sources registry: Sources of models/sources *)

\* The tokens callers resolve: two names that differ in case only, and an
\* address (shortened; /^0x[a-fA-F0-9]{40}$/ matches it).
Tokens == {"OpenSea", "opensea", "0xAB"}

isAddress(s) == s \in {"0xAB", "0xab"}

\* _.toLower
toLower(s) ==
    CASE s = "OpenSea" -> "opensea"
      [] s = "0xAB" -> "0xab"
      [] OTHER -> s

\* "0x" + randomBytes(20).toString("hex"): a new address at every draw.
RandomPool == <<"0xr1", "0xr2", "0xr3", "0xr4", "0xr5">>

\* !this.instance, and the fields as the constructor sets them.  n counts the
\* instances constructed; loaded is history: the first loadData has finished.
NoInstance ==
    [n |-> 0, loaded |-> FALSE, sources |-> <<>>, sourcesByNames |-> <<>>,
     sourcesByAddress |-> <<>>]

NoCache == [set |-> FALSE, rows |-> <<>>]

IdleCall ==
    [op |-> "none", pc |-> "idle", s |-> "", address |-> "", force |-> FALSE,
     rows |-> <<>>, ent |-> 0, ret |-> 0, known |-> 0, has |-> FALSE, got |-> 0,
     sawLoaded |-> TRUE, sawStale |-> FALSE]

Put(map, k, v) == [x \in DOMAIN map \cup {k} |-> IF x = k THEN v ELSE map[x]]

\* The loop of loadData over the rows read.
RECURSIVE Fill(_, _)
Fill(inst, rows) ==
    IF rows = <<>> THEN inst
    ELSE LET r == Head(rows) IN
         Fill([inst EXCEPT !.sources = Put(@, r.id, r),
                           !.sourcesByNames = Put(@, toLower(r.name), r),
                           !.sourcesByAddress = Put(@, toLower(r.address), r)],
              Tail(rows))

\* SELECT * FROM sources_v2 has no ORDER BY: the rows in any order.
Select(table) ==
    {f \in [1..Cardinality(table) -> table] : \A r \in table : \E k \in DOMAIN f : f[k] = r}

\* INSERT ... ON CONFLICT (name) DO UPDATE SET name = EXCLUDED.name
\* RETURNING *: the table after it and the id of the row returned.
Upsert(table, id, name, address) ==
    IF \E r \in table : r.name = name
    THEN [table |-> table, ent |-> (CHOOSE r \in table : r.name = name).id]
    ELSE [table |-> table \cup {[id |-> id, name |-> name, address |-> address]},
          ent |-> id]

\* A row the table holds when the process starts (syncSources).
Seed == [id |-> 1, name |-> "Seeded", address |-> "0xseed"]

InitRegistry ==
    /\ sources_v2 = {}
    /\ nextId = 1
    /\ cache = NoCache
    /\ instance = NoInstance
    /\ call = [c \in 1..MaxCallers |-> IdleCall]
    /\ requests = 0
    /\ rand = 0
    /\ resolved = [s \in Tokens |-> 0]

\* The process starts on a table that is empty or seeded, with the cache
\* key absent or set by a process that ran before.
InitRegistrySeeded ==
    /\ \E seeded, cached \in BOOLEAN :
          /\ sources_v2 = IF seeded THEN {Seed} ELSE {}
          /\ nextId = IF seeded THEN 2 ELSE 1
          /\ cache = IF cached
                     THEN [set |-> TRUE, rows |-> IF seeded THEN <<Seed>> ELSE <<>>]
                     ELSE NoCache
    /\ instance = NoInstance
    /\ call = [c \in 1..MaxCallers |-> IdleCall]
    /\ requests = 0
    /\ rand = 0
    /\ resolved = [s \in Tokens |-> 0]

\* getInstance returns inst to the caller whose record is rec.
ReturnInstance(rec, inst) ==
    [rec EXCEPT !.pc = "done", !.has = TRUE, !.got = inst.n,
                !.sawLoaded = inst.loaded,
                !.sawStale = (DOMAIN inst.sources = {} /\ sources_v2 # {})]

\* Sources.getInstance() up to its await, or to its return when the instance
\* is there.
GetInstance(c) ==
    /\ requests < MaxRequests
    /\ call[c].pc \in {"idle", "done"}
    /\ requests' = requests + 1
    /\ IF instance.n = 0
       THEN /\ instance' = [NoInstance EXCEPT !.n = 1]
            /\ call' = [call EXCEPT ![c] = [IdleCall EXCEPT !.op = "getInstance",
                                                !.pc = "get", !.has = call[c].has]]
       ELSE /\ instance' = instance
            /\ call' = [call EXCEPT ![c] =
                          ReturnInstance([IdleCall EXCEPT !.op = "getInstance"], instance)]
    /\ UNCHANGED <<sources_v2, nextId, cache, rand, resolved>>
    /\ UNCHANGED <<saveVars, blockVars>>

\* History: the id the first completed getOrInsert(s) returned.
Resolve(s, id) ==
    resolved' = IF resolved[s] = 0 THEN [resolved EXCEPT ![s] = id] ELSE resolved

\* loadData has filled the maps (inst): getInstance returns the instance,
\* create returns its entity and getOrInsert returns that.
Continue(c, inst) ==
    IF call[c].op = "getInstance"
    THEN /\ instance' = [inst EXCEPT !.loaded = TRUE]
         /\ call' = [call EXCEPT ![c] =
                       ReturnInstance(call[c], [inst EXCEPT !.loaded = TRUE])]
         /\ UNCHANGED resolved
    ELSE /\ instance' = inst
         /\ call' = [call EXCEPT ![c].pc = "done", ![c].ret = call[c].ent]
         /\ Resolve(call[c].s, call[c].ent)

\* loadData: redis.get returns.
LoadGet(c) ==
    /\ call[c].pc = "get"
    /\ IF ~cache.set \/ call[c].force
       THEN /\ call' = [call EXCEPT ![c].pc = "select"]
            /\ UNCHANGED <<instance, resolved>>
       ELSE Continue(c, Fill(instance, cache.rows))
    /\ UNCHANGED <<sources_v2, nextId, cache, requests, rand>>
    /\ UNCHANGED <<saveVars, blockVars>>

\* loadData: the SELECT returns.
LoadSelect(c) ==
    /\ call[c].pc = "select"
    /\ \E rows \in Select(sources_v2) :
          call' = [call EXCEPT ![c].pc = "set", ![c].rows = rows]
    /\ UNCHANGED <<sources_v2, nextId, cache, instance, requests, rand, resolved>>
    /\ UNCHANGED <<saveVars, blockVars>>

\* loadData: redis.set returns, and the maps are filled.
LoadSet(c) ==
    /\ call[c].pc = "set"
    /\ cache' = [set |-> TRUE, rows |-> call[c].rows]
    /\ Continue(c, Fill(instance, call[c].rows))
    /\ UNCHANGED <<sources_v2, nextId, requests, rand>>
    /\ UNCHANGED <<saveVars, blockVars>>

\* instance.getOrInsert(s) up to its await in create, or to its return when
\* the maps hold the token.
GetOrInsert(c, s) ==
    /\ requests < MaxRequests
    /\ call[c].pc \in {"idle", "done"}
    /\ call[c].has
    /\ requests' = requests + 1
    /\ LET map == IF isAddress(s) THEN instance.sourcesByAddress
                  ELSE instance.sourcesByNames
           rec == [IdleCall EXCEPT !.op = "getOrInsert", !.s = s, !.has = TRUE,
                                   !.known = resolved[s]]
       IN  IF toLower(s) \in DOMAIN map
           THEN /\ call' = [call EXCEPT ![c] =
                              [rec EXCEPT !.pc = "done", !.ret = map[toLower(s)].id]]
                /\ Resolve(s, map[toLower(s)].id)
                /\ UNCHANGED rand
           ELSE IF isAddress(s)
                THEN /\ call' = [call EXCEPT ![c] =
                                   [rec EXCEPT !.pc = "insert", !.address = s]]
                     /\ UNCHANGED <<rand, resolved>>
                ELSE /\ rand < Len(RandomPool)
                     /\ rand' = rand + 1
                     /\ call' = [call EXCEPT ![c] =
                                   [rec EXCEPT !.pc = "insert",
                                               !.address = RandomPool[rand + 1]]]
                     /\ UNCHANGED resolved
    /\ UNCHANGED <<sources_v2, nextId, cache, instance>>
    /\ UNCHANGED <<saveVars, blockVars>>

\* create: the INSERT returns; Sources.instance.loadData(true) begins.
CreateInsert(c) ==
    /\ call[c].pc = "insert"
    /\ LET u == Upsert(sources_v2, nextId, call[c].s, call[c].address) IN
         /\ sources_v2' = u.table
         /\ call' = [call EXCEPT ![c].pc = "get", ![c].force = TRUE, ![c].ent = u.ent]
    /\ nextId' = nextId + 1
    /\ UNCHANGED <<cache, instance, requests, rand, resolved>>
    /\ UNCHANGED <<saveVars, blockVars>>

-----------------------------------------------------------------------------
(* The block store *)

\* Block hashes as callers write them, and the bytes toBuffer makes of them.
Hashes == {"0xab", "0xAB", "0xcd"}

\* toBuffer: the hex digits after 0x, decoded; the case of a digit is lost.
toBuffer(h) == IF h \in {"0xab", "0xAB"} THEN "ab" ELSE "cd"

\* fromBuffer: "0x" and the bytes in lower-case hex.
fromBuffer(b) == IF b = "ab" THEN "0xab" ELSE "0xcd"

Numbers == 1..MaxNumber

\* INSERT INTO blocks (hash, number) ... ON CONFLICT DO NOTHING, the table
\* being keyed by (hash, number).
insertBlock(table, h, number) == table \cup {[hash |-> h, number |-> number]}

\* Variant: DELETE FROM blocks WHERE blocks.number = number.
deleteAtNumber(table, h, number) == {b \in table : b.number # number}

\* DELETE FROM blocks WHERE blocks.hash = hash AND blocks.number = number.
deleteFrom(table, h, number) ==
    {b \in table : ~(b.hash = h /\ b.number = number)}

\* SELECT blocks.hash FROM blocks WHERE blocks.number = number.
selectHashes(table, number) == {b.hash : b \in {x \in table : x.number = number}}

saveBlock(block) ==
    /\ blocks' = insertBlock(blocks, toBuffer(block.hash), block.number)
    /\ lastOp' = [op |-> "saveBlock", hash |-> block.hash, number |-> block.number,
                  before |-> blocks, ret |-> {block}]
    /\ UNCHANGED <<saveVars, registryVars>>

deleteBlock(number, h) ==
    /\ blocks' = deleteFrom(blocks, toBuffer(h), number)
    /\ lastOp' = [op |-> "deleteBlock", hash |-> h, number |-> number,
                  before |-> blocks, ret |-> {}]
    /\ UNCHANGED <<saveVars, registryVars>>

getBlocks(number) ==
    /\ blocks' = blocks
    /\ lastOp' = [op |-> "getBlocks", hash |-> "", number |-> number, before |-> blocks,
                  ret |-> {[hash |-> fromBuffer(h), number |-> number] :
                             h \in selectHashes(blocks, number)}]
    /\ UNCHANGED <<saveVars, registryVars>>

-----------------------------------------------------------------------------
(* save *)

InitSave ==
    /\ orders = {}
    /\ now = 1
    /\ calls = 0
    /\ otherWrites = 0
    /\ pc = "idle"
    /\ batch = <<>>
    /\ relay = FALSE
    /\ task = <<>>
    /\ results = <<>>
    /\ orderValues = <<>>
    /\ arweaveData = <<>>
    /\ queue = <<>>
    /\ relayed = <<>>
    /\ before = {}
    /\ prev = [batch |-> <<>>, results |-> <<>>, before |-> {}]

InitBlocks ==
    /\ blocks = {}
    /\ lastOp = [op |-> "none", hash |-> "", number |-> 0, before |-> {}, ret |-> {}]

Init == InitSave /\ InitRegistry /\ InitBlocks

\* save(orderInfos, relayToArweave) is called.
StartSave(b, r) ==
    /\ UNCHANGED <<registryVars, blockVars>>
    /\ pc \in {"idle", "returned"}
    /\ calls' = calls + 1
    /\ pc' = "fanout"
    /\ batch' = b
    /\ relay' = r
    /\ task' = Schedule([i \in 1..Len(b) |-> NewTask])
    /\ results' = <<>>
    /\ orderValues' = <<>>
    /\ arweaveData' = <<>>
    /\ before' = orders
    /\ UNCHANGED <<orders, now, otherWrites, queue, relayed>>

\* The existence query returns.
StepExists(i) ==
    /\ UNCHANGED <<registryVars, blockVars>>
    /\ pc = "fanout"
    /\ i \in DOMAIN task
    /\ task[i].pc = "exists"
    /\ IF orderExists(batch[i])
       THEN Finish(task, i, "already-exists")
       ELSE Goto(i, "kind") /\ UNCHANGED results
    /\ UNCHANGED <<orders, now, calls, otherWrites, pc, batch, relay,
                   orderValues, arweaveData, queue, relayed, before, prev>>

\* getContractKind returns.
StepKind(i) ==
    /\ UNCHANGED <<registryVars, blockVars>>
    /\ pc = "fanout"
    /\ i \in DOMAIN task
    /\ task[i].pc = "kind"
    /\ LET kind == getContractKind(batch[i].nft) IN
         IF kind = "null"
         THEN Finish(task, i, "unknown-order-kind")
         ELSE /\ task' = [task EXCEPT ![i].pc = "nonce", ![i].kind = kind]
              /\ UNCHANGED results
    /\ UNCHANGED <<orders, now, calls, otherWrites, pc, batch, relay,
                   orderValues, arweaveData, queue, relayed, before, prev>>

\* The nonce query returns; the checks up to offChainCheck follow at once.
StepNonce(i) ==
    /\ UNCHANGED <<registryVars, blockVars>>
    /\ pc = "fanout"
    /\ i \in DOMAIN task
    /\ task[i].pc = "nonce"
    /\ IF nonceExists(batch[i], task[i].kind)
       THEN Finish(task, i, "duplicated-nonce")
       ELSE LET t == [task EXCEPT ![i].at = now] IN
            IF SyncChecks(batch[i]) # "pass"
            THEN Finish(t, i, SyncChecks(batch[i]))
            ELSE /\ task' = [t EXCEPT ![i].pc = "check"]
                 /\ UNCHANGED results
    /\ UNCHANGED <<orders, now, calls, otherWrites, pc, batch, relay,
                   orderValues, arweaveData, queue, relayed, before, prev>>

\* offChainCheck returns or throws; an order of no single-token kind has no
\* token set and ends here.
StepCheck(i, outcome) ==
    /\ UNCHANGED <<registryVars, blockVars>>
    /\ pc = "fanout"
    /\ i \in DOMAIN task
    /\ task[i].pc = "check"
    /\ LET t == [task EXCEPT ![i].checker = outcome] IN
       IF outcome = "other"
       THEN Finish(t, i, "not-fillable")
       ELSE IF ~IsSingleToken(batch[i])
            THEN Finish(t, i, "invalid-token-set")
            ELSE /\ task' = [t EXCEPT ![i].pc = "tokenset"]
                 /\ UNCHANGED results
    /\ UNCHANGED <<orders, now, calls, otherWrites, pc, batch, relay,
                   orderValues, arweaveData, queue, relayed, before, prev>>

\* tokenSet.singleToken.save returns the token set; fees, price and the row.
StepTokenSet(i) ==
    /\ UNCHANGED <<registryVars, blockVars>>
    /\ pc = "fanout"
    /\ i \in DOMAIN task
    /\ task[i].pc = "tokenset"
    /\ LET o == batch[i] IN
         IF DivThrows(o)
         THEN Drop(i) /\ UNCHANGED <<results, orderValues, arweaveData>>
         ELSE IF FeesTooHigh(o)
              THEN Finish(task, i, "fees-too-high") /\ UNCHANGED <<orderValues, arweaveData>>
              ELSE /\ orderValues' = Append(orderValues,
                          Row(o, task[i].kind, fillabilityOf(task[i].checker),
                              approvalOf(task[i].checker)))
                   /\ Finish(task, i, "success")
                   /\ arweaveData' = IF relay THEN Append(arweaveData, hash(o))
                                     ELSE arweaveData
    /\ UNCHANGED <<orders, now, calls, otherWrites, pc, batch, relay, queue, relayed,
                   before, prev>>

\* Variant: handleOrder has no catch, so the error rejects Promise.all and
\* save itself.
FaultPropagates(i) ==
    /\ UNCHANGED <<registryVars, blockVars>>
    /\ pc = "fanout"
    /\ i \in DOMAIN task
    /\ task[i].pc \in {"exists", "kind", "nonce", "tokenset"}
    /\ task' = [task EXCEPT ![i].pc = "done", ![i].thrown = TRUE]
    /\ pc' = "threw"
    /\ UNCHANGED <<orders, now, calls, otherWrites, batch, relay, results,
                   orderValues, arweaveData, queue, relayed, before, prev>>

\* An awaited call rejects with an unexpected error: the catch logs it and
\* handleOrder returns without an outcome.
Fault(i) ==
    /\ UNCHANGED <<registryVars, blockVars>>
    /\ pc = "fanout"
    /\ i \in DOMAIN task
    /\ task[i].pc \in {"exists", "kind", "nonce", "tokenset"}
    /\ Drop(i)
    /\ UNCHANGED <<orders, now, calls, otherWrites, pc, batch, relay, results,
                   orderValues, arweaveData, queue, relayed, before, prev>>

\* Variant: Promise.race in place of Promise.all.
AnyDone == \E i \in DOMAIN task : task[i].pc = "done"

AllDone == \A i \in DOMAIN task : task[i].pc = "done"

\* Variant: a plain INSERT into a table without the key on id.
InsertRowsNoConflict(table, rows) == table \cup {rows[k] : k \in DOMAIN rows}

\* INSERT ... ON CONFLICT DO NOTHING of the rows, in order.
RECURSIVE InsertRows(_, _)
InsertRows(table, rows) ==
    IF rows = <<>> THEN table
    ELSE LET r == Head(rows) IN
         InsertRows(IF \E x \in table : x.id = r.id THEN table ELSE table \cup {r},
                    Tail(rows))

\* Promise.all has resolved and orderValues is not empty: the bulk insert.
BulkInsert ==
    /\ UNCHANGED <<registryVars, blockVars>>
    /\ pc = "fanout"
    /\ AllDone
    /\ orderValues # <<>>
    /\ orders' = InsertRows(orders, orderValues)
    /\ pc' = "notify"
    /\ UNCHANGED <<now, calls, otherWrites, batch, relay, task, results,
                   orderValues, arweaveData, queue, relayed, before, prev>>

\* Variant: an event for every outcome, whatever its status.
NewOrderEventsAll(rs) ==
    [k \in 1..Len(rs) |->
        [context |-> <<"new-order", rs[k].id>>, id |-> rs[k].id, trigger |-> "new-order"]]

NewOrderEvents(rs) ==
    LET ok == SelectSeq(rs, LAMBDA r : r.status = "success") IN
    [k \in 1..Len(ok) |->
        [context |-> <<"new-order", ok[k].id>>, id |-> ok[k].id, trigger |-> "new-order"]]

\* addToQueue, then the relay, then return results.
Notify ==
    /\ UNCHANGED <<registryVars, blockVars>>
    /\ pc = "notify"
    /\ queue' = queue \o NewOrderEvents(results)
    /\ relayed' = IF relay THEN relayed \o arweaveData ELSE relayed
    /\ pc' = "returned"
    /\ UNCHANGED <<orders, now, calls, otherWrites, batch, relay, task, results,
                   orderValues, arweaveData, before, prev>>

\* Promise.all has resolved and orderValues is empty: return results.
ReturnEmpty ==
    /\ UNCHANGED <<registryVars, blockVars>>
    /\ pc = "fanout"
    /\ AllDone
    /\ orderValues = <<>>
    /\ pc' = "returned"
    /\ UNCHANGED <<orders, now, calls, otherWrites, batch, relay, task, results,
                   orderValues, arweaveData, queue, relayed, before, prev>>

\* Another process's save inserts the row of an order it accepted, at some
\* earlier time, through the same checks.
OtherWriter(o, outcome) ==
    /\ UNCHANGED <<registryVars, blockVars>>
    /\ otherWrites < MaxOtherWrites
    /\ getContractKind(o.nft) # "null"
    /\ ~BuyTokenUnsupported(o)
    /\ ~SellTokenUnsupported(o)
    /\ o.taker = AddressZero
    /\ o.wellFormed
    /\ o.signature = "good"
    /\ outcome # "other"
    /\ IsSingleToken(o)
    /\ ~DivThrows(o)
    /\ ~FeesTooHigh(o)
    /\ otherWrites' = otherWrites + 1
    /\ orders' = InsertRows(orders,
            <<Row(o, getContractKind(o.nft), fillabilityOf(outcome), approvalOf(outcome))>>)
    /\ UNCHANGED <<now, calls, pc, batch, relay, task, results, orderValues,
                   arweaveData, queue, relayed, before, prev>>

\* A second passes.
Tick ==
    /\ UNCHANGED <<registryVars, blockVars>>
    /\ now < MaxNow
    /\ now' = now + 1
    /\ UNCHANGED <<orders, calls, otherWrites, pc, batch, relay, task, results,
                   orderValues, arweaveData, queue, relayed, before, prev>>

-----------------------------------------------------------------------------
(* The orders callers submit *)

Amounts == 0..MaxAmount
Quantities == 1..MaxQuantity
FeeLists == {<<>>, <<1, 1>>} \cup {<<a>> : a \in 1..MaxAmount}
OrderKinds == {"erc721-single-token", "erc1155-single-token", "erc721-contract-wide"}
Contracts == {"c721", "c1155", "cNone"}

\* A sell order that passes every check while no row clashes with it.
Sell(maker, nonce, nft, kind, amount, fees, qty) ==
    MkOrder(maker, nonce, nft, kind, SELL, Eth, amount, fees, qty, AddressZero,
            MaxNow + 1, TRUE, "good")

KindOf(nft) == IF nft = "c1155" THEN "erc1155-single-token" ELSE "erc721-single-token"

\* Orders that differ in what the table queries read.
Listings ==
    {[Sell(m, 1, nft, KindOf(nft), a, f, 1) EXCEPT !.expiry = e] :
        m \in {"m1", "m2"}, nft \in {"c721", "c1155"}, a \in {1, 2},
        f \in {<<>>, <<1>>}, e \in {MaxNow + 1, MaxNow + 2}}

\* Orders that differ in what the checks before offChainCheck read.
Offers ==
    {MkOrder("m1", 1, "c721", "erc721-single-token", d, t, 1, <<>>, 1, k, e, wf, sig) :
        d \in {BUY, SELL}, t \in {Weth, Eth, Dai}, k \in {AddressZero, "t1"},
        e \in 1..(MaxNow + 1), wf \in BOOLEAN, sig \in {"good", "bad"}}

\* Orders that differ in what the kinds, the price and the fees read.
Priced ==
    {MkOrder("m1", 1, nft, kind, d, IF d = BUY THEN Weth ELSE Eth, a, f, q,
             AddressZero, MaxNow + 1, TRUE, "good") :
        nft \in Contracts, kind \in OrderKinds, d \in {BUY, SELL},
        a \in Amounts, f \in FeeLists, q \in Quantities}

\* A small pool for batches: two erc1155 listings of one maker and nonce, an
\* erc721 listing, and an order of the same hash whose signature is bad.
Shared ==
    {Sell("m1", 1, "c1155", "erc1155-single-token", 1, <<>>, 1),
     Sell("m1", 1, "c1155", "erc1155-single-token", 2, <<>>, 1),
     Sell("m1", 1, "c721", "erc721-single-token", 1, <<>>, 1),
     [Sell("m1", 1, "c721", "erc721-single-token", 1, <<>>, 1)
        EXCEPT !.signature = "bad"]}

Batches(pool) == UNION {[1..n -> pool] : n \in 1..MaxBatch}

\* History: keep the call that ends when the next one starts.
Remember == prev' = [batch |-> batch, results |-> results, before |-> before]

Handlers(S, outcomes) ==
    \/ \E i \in S : StepExists(i)
    \/ \E i \in S : StepKind(i)
    \/ \E i \in S : StepNonce(i)
    \/ \E i \in S, c \in outcomes : StepCheck(i, c)
    \/ \E i \in S : StepTokenSet(i)
    \/ \E i \in S : Fault(i)

\* Batches handled concurrently, replays, and other processes writing.
Next ==
    \/ \E b \in Batches(Shared) : calls < MaxCalls /\ StartSave(b, FALSE) /\ UNCHANGED prev
    \/ Handlers(1..MaxBatch, {"ok", "no-balance", "other"})
    \/ BulkInsert
    \/ Notify
    \/ ReturnEmpty
    \/ \E o \in Shared, c \in {"ok", "no-balance"} : OtherWriter(o, c)

Spec == Init /\ [][Next]_vars

\* Successive save calls of one order each.
NextSeq ==
    \/ \E o \in Listings : calls < MaxCalls /\ StartSave(<<o>>, FALSE) /\ Remember
    \/ Handlers({1}, {"ok", "no-approval", "other"})
    \/ BulkInsert
    \/ Notify
    \/ ReturnEmpty

SpecSeq == Init /\ [][NextSeq]_vars

\* One save call of one order, at any time.
NextOne ==
    \/ \E o \in Offers \cup Priced, r \in BOOLEAN : pc = "idle" /\ StartSave(<<o>>, r) /\ UNCHANGED prev
    \/ Handlers({1}, CheckerOutcomes)
    \/ BulkInsert
    \/ Notify
    \/ ReturnEmpty
    \/ Tick

SpecOne == Init /\ [][NextOne]_vars

\* The started handlers that fewer than MaxRacing older started handlers are
\* still ahead of.
Oldest(t) ==
    {i \in Active(t) : Cardinality({j \in Active(t) : j < i}) < MaxRacing}

\* A batch of n orders, all the same.
Fan(n, o) == [i \in 1..n |-> o]

\* One save call of a batch as long as the limit of p-limit or longer; the
\* awaited calls of the oldest started handlers return first.
NextFan ==
    \/ \E n \in ConcurrencyLimit..FanBatch, nft \in {"c721", "cNone"} :
          /\ pc = "idle"
          /\ StartSave(Fan(n, Sell("m1", 1, nft, KindOf(nft), 1, <<>>, 1)), FALSE)
          /\ UNCHANGED prev
    \/ \E i \in Oldest(task) : StepExists(i)
    \/ \E i \in Oldest(task) : StepKind(i)
    \/ \E i \in Oldest(task) : StepNonce(i)
    \/ \E i \in Oldest(task) : StepCheck(i, "ok")
    \/ \E i \in Oldest(task) : StepTokenSet(i)
    \/ BulkInsert
    \/ Notify
    \/ ReturnEmpty

SpecFan == Init /\ [][NextFan]_vars

\* Callers of one process resolving tokens through the registry.
NextSources ==
    \/ \E c \in 1..MaxCallers : GetInstance(c)
    \/ \E c \in 1..MaxCallers : LoadGet(c)
    \/ \E c \in 1..MaxCallers : LoadSelect(c)
    \/ \E c \in 1..MaxCallers : LoadSet(c)
    \/ \E c \in 1..MaxCallers, s \in Tokens : GetOrInsert(c, s)
    \/ \E c \in 1..MaxCallers : CreateInsert(c)

InitSources == InitSave /\ InitRegistrySeeded /\ InitBlocks

SpecSources == InitSources /\ [][NextSources]_vars

\* Calls into the block store, one statement each.
NextBlocks ==
    \/ \E h \in Hashes, n \in Numbers : saveBlock([hash |-> h, number |-> n])
    \/ \E h \in Hashes, n \in Numbers : deleteBlock(n, h)
    \/ \E n \in Numbers : getBlocks(n)

SpecBlocks == Init /\ [][NextBlocks]_vars

-----------------------------------------------------------------------------
(* Properties *)

Thrown == {i \in DOMAIN task : task[i].thrown}

Outcome(o, status) == [id |-> hash(o), status |-> status]

HasRow(table, id) == \E r \in table : r.id = id

\* C1: when a save call of one order reported success and the next save call
\* ingests the same raw order, that call reports already-exists for it, and
\* the two calls together add at most one row to the orders table.
C1_Idempotence ==
    (/\ pc = "returned"
     /\ Len(batch) = 1
     /\ prev.batch = batch
     /\ prev.results = <<Outcome(batch[1], "success")>>
     /\ Thrown = {})
    => /\ results = <<Outcome(batch[1], "already-exists")>>
       /\ Cardinality(orders) <= Cardinality(prev.before) + 1

C1_Witness ==
    /\ pc = "returned"
    /\ Len(batch) = 1
    /\ prev.batch = batch
    /\ prev.results = <<Outcome(batch[1], "success")>>
    /\ results = <<Outcome(batch[1], "already-exists")>>
    /\ Cardinality(orders) = Cardinality(prev.before) + 1

UniqueIds == \A r1, r2 \in orders : r1.id = r2.id => r1 = r2

\* C2: the orders table never holds two rows of one identity, and no step
\* (a save call's bulk insert, a replay, another writer) changes or removes
\* a row that is in the table: the first row written for an identity stays.
C2_FirstWriterWins == [][UniqueIds' /\ orders \subseteq orders']_vars

\* A bulk insert has met a row of the same identity and other contents.
C2_Witness ==
    /\ pc = "notify"
    /\ \E k \in DOMAIN orderValues :
          /\ orderValues[k] \notin orders
          /\ HasRow(orders, orderValues[k].id)

\* C3 as stated: an order whose maker and nonce are those of a persisted
\* order of another identity gets duplicated-nonce when both are erc1155, or
\* when both are erc721 with the same contract and the same price.
SameNonce(o, kind, r) ==
    /\ r.id # hash(o)
    /\ r.maker = o.maker
    /\ r.nonce = o.nonce
    /\ \/ kind = "erc1155" /\ r.kind = <<"opendao", "erc1155">>
       \/ /\ kind = "erc721"
          /\ r.kind = <<"opendao", "erc721">>
          /\ r.contract = o.nft
          /\ r.price = o.erc20TokenAmount + SumSeq(o.fees)

C3_NonceUniqueness ==
    (/\ pc = "returned"
     /\ Len(batch) = 1
     /\ Thrown = {}
     /\ ~HasRow(before, hash(batch[1]))
     /\ \E r \in before : SameNonce(batch[1], task[1].kind, r))
    => results = <<Outcome(batch[1], "duplicated-nonce")>>

\* The order at position i passed the existence, kind, nonce and expiry
\* checks: task[i].at is the time its expiry check read.
ReachedPayment(i) == task[i].at # 0 /\ task[i].at < batch[i].expiry

PolicyViolated(o) ==
    \/ o.direction = BUY /\ o.erc20Token # Weth
    \/ o.direction = SELL /\ o.erc20Token # Eth

\* C4 as stated: an order that reached the payment check is rejected with
\* unsupported-payment-token exactly when it is a buy order not quoting the
\* wrapped-native token or a sell order not quoting the native token.
C4_PaymentPolicy ==
    \A i \in DOMAIN task :
        ReachedPayment(i) =>
            ((task[i].status = "unsupported-payment-token") <=> PolicyViolated(batch[i]))

RowsOf(rows, id) == {k \in DOMAIN rows : rows[k].id = id}

\* C5: a buy order that reached the payment check and quotes another token
\* than the wrapped-native one gets unsupported-payment-token, and the call
\* neither submits nor writes a row for it.
C5_BuyNeedsWeth ==
    \A i \in DOMAIN task :
        (/\ ReachedPayment(i)
         /\ batch[i].direction = BUY
         /\ batch[i].erc20Token # Weth)
        => /\ task[i].status = "unsupported-payment-token"
           /\ \E k \in DOMAIN results :
                 results[k] = Outcome(batch[i], "unsupported-payment-token")
           /\ RowsOf(orderValues, hash(batch[i])) = {}
           /\ ~HasRow(orders, hash(batch[i]))

C5_Witness ==
    /\ pc = "returned"
    /\ \E i \in DOMAIN task :
          /\ ReachedPayment(i)
          /\ batch[i].direction = BUY
          /\ batch[i].erc20Token = Dai
          /\ results = <<Outcome(batch[i], "unsupported-payment-token")>>

\* C6: an order whose expiry check reads a time equal to or after its expiry
\* is rejected as expired; it gets past the check only when the time read is
\* strictly before the expiry.
C6_ExpiryBoundary ==
    \A i \in DOMAIN task :
        task[i].at # 0 =>
            ((task[i].status = "expired") <=> (task[i].at >= batch[i].expiry))

C6_Witness ==
    \E i \in DOMAIN task :
        /\ task[i].at = batch[i].expiry
        /\ results = <<Outcome(batch[i], "expired")>>

\* The price and the fee rate as the specification states them.
StatedPrice(o) ==
    IF o.kind \in {"erc1155-single-token", "erc1155-contract-wide"}
    THEN (o.erc20TokenAmount + SumSeq(o.fees)) \div o.nftAmount
    ELSE o.erc20TokenAmount + SumSeq(o.fees)

StatedBps(o) == (SumSeq(o.fees) * 10000) \div StatedPrice(o)

\* The handler at position i got to the fee computation and returned.
Computed(i) ==
    /\ task[i].pc = "done"
    /\ task[i].checker \notin {"none", "other"}
    /\ batch[i].kind \in {"erc721-single-token", "erc1155-single-token"}
    /\ ~task[i].thrown

\* C7: every row submitted has fee_bps in 0..10000, equal to
\* floor(feeAmount * 10000 / price) for the price of one item; an order whose
\* fee rate is above 10000 gets fees-too-high and no row is submitted.
C7_FeeBound ==
    /\ \A k \in DOMAIN orderValues :
          orderValues[k].fee_bps >= 0 /\ orderValues[k].fee_bps <= 10000
    /\ \A i \in DOMAIN task :
          /\ task[i].status = "success" =>
                \E k \in RowsOf(orderValues, hash(batch[i])) :
                    orderValues[k].fee_bps = StatedBps(batch[i])
          /\ (Computed(i) /\ StatedPrice(batch[i]) # 0 /\ StatedBps(batch[i]) > 10000)
                => /\ task[i].status = "fees-too-high"
                   /\ RowsOf(orderValues, hash(batch[i])) = {}

C7_Witness ==
    /\ pc = "returned"
    /\ \E i \in DOMAIN task :
          /\ Computed(i)
          /\ StatedBps(batch[i]) > 10000
          /\ results = <<Outcome(batch[i], "fees-too-high")>>

\* C8: an accepted erc1155 order of quantity q > 1 is submitted and persisted
\* with price floor((erc20TokenAmount + feeAmount) / q).
C8_UnitPrice ==
    \A i \in DOMAIN task :
        (/\ task[i].status = "success"
         /\ batch[i].kind = "erc1155-single-token"
         /\ batch[i].nftAmount > 1)
        => LET p == (batch[i].erc20TokenAmount + SumSeq(batch[i].fees))
                        \div batch[i].nftAmount
           IN  /\ \E k \in RowsOf(orderValues, hash(batch[i])) : orderValues[k].price = p
               /\ pc = "returned" =>
                     \E r \in orders : r.id = hash(batch[i]) /\ r.price = p

\* A persisted erc1155 row whose total does not divide by the quantity.
C8_Witness ==
    /\ pc = "returned"
    /\ \E i \in DOMAIN task :
          /\ task[i].status = "success"
          /\ batch[i].kind = "erc1155-single-token"
          /\ batch[i].nftAmount = 2
          /\ batch[i].erc20TokenAmount + SumSeq(batch[i].fees) = 3
          /\ \E r \in orders : r.id = hash(batch[i]) /\ r.price = 1

WellFormedSell(o) ==
    /\ o.direction = SELL
    /\ o.kind = "erc721-single-token"
    /\ o.erc20Token = Eth
    /\ o.taker = AddressZero
    /\ o.wellFormed
    /\ o.signature = "good"
    /\ o.erc20TokenAmount + SumSeq(o.fees) # 0

Approved(r, o) ==
    /\ r.id = hash(o)
    /\ r.approval_status = "approved"
    /\ r.fillability_status = "fillable"
    /\ r.value = r.price
    /\ r.price = o.erc20TokenAmount + SumSeq(o.fees)

\* C9: a well-formed sell order of a single erc721 token that is new, not
\* expired, and whose balance and approval the checker confirms gets success,
\* and its row is approved, fillable and has value equal to price.
C9_WellFormedSell ==
    \A i \in DOMAIN task :
        (/\ WellFormedSell(batch[i])
         /\ ReachedPayment(i)
         /\ task[i].checker = "ok"
         /\ task[i].pc = "done"
         /\ ~task[i].thrown)
        => /\ \E k \in DOMAIN results : results[k] = Outcome(batch[i], "success")
           /\ \E k \in DOMAIN orderValues : Approved(orderValues[k], batch[i])
           /\ pc = "returned" => \E r \in orders : Approved(r, batch[i])

\* Such an order with a fee declared, persisted.
C9_Witness ==
    /\ pc = "returned"
    /\ \E i \in DOMAIN task :
          /\ WellFormedSell(batch[i])
          /\ batch[i].fees # <<>>
          /\ task[i].checker = "ok"
          /\ \E r \in orders : Approved(r, batch[i])

\* C10: when exactly one handler of a batch throws to its catch, save does
\* not throw, the batch ends with one outcome fewer than orders and none for
\* the order that threw, and every order reported success has its row in
\* the table and its event in the queue when save returns.
C10_FailureIsolation ==
    Cardinality(Thrown) = 1 =>
        /\ pc # "threw"
        /\ \A i \in Thrown : task[i].status = "none"
        /\ AllDone => Len(results) = Len(batch) - 1
        /\ pc = "returned" =>
              \A k \in DOMAIN results :
                  results[k].status = "success" =>
                      /\ HasRow(orders, results[k].id)
                      /\ \E e \in DOMAIN queue : queue[e].id = results[k].id

C10_Witness ==
    /\ pc = "returned"
    /\ Len(batch) = 2
    /\ Cardinality(Thrown) = 1
    /\ \E i \in DOMAIN task :
          /\ results = <<Outcome(batch[i], "success")>>
          /\ HasRow(orders, hash(batch[i]))
          /\ \E e \in DOMAIN queue : queue[e].id = hash(batch[i])

\* C11: during a save call over a batch of any length, the number of orders
\* whose handler has started and has not finished never exceeds 20, so at
\* most 20 offChainCheck calls are pending at any time.
C11_ConcurrencyCap ==
    /\ Cardinality(Active(task)) <= 20
    /\ Cardinality({i \in DOMAIN task : task[i].pc = "check"}) <= 20

\* A batch longer than 20: a handler has finished, 20 are running and one
\* still waits for a slot.
C11_Witness ==
    /\ Len(batch) > 20
    /\ Cardinality(Active(task)) = 20
    /\ Queued(task) # {}
    /\ \E i \in DOMAIN task : task[i].pc = "done"
    /\ \E i \in DOMAIN task : task[i].pc = "check"

\* Every handler of the batch has returned, with an outcome or without.
Completed ==
    /\ \A i \in DOMAIN task : task[i].pc = "done"
    /\ Len(results) + Cardinality(Thrown) = Len(batch)

\* C12: within a save call the bulk insert happens only when every handler
\* of the batch has completed, with an outcome or dropped; events are
\* enqueued only after the bulk insert has completed; and every event in the
\* queue has a row of its identity in the orders table.
C12_Ordering ==
    [][/\ (orders' # orders /\ otherWrites' = otherWrites) =>
              (pc = "fanout" /\ Completed /\ pc' = "notify")
       /\ (pc' = "notify" /\ pc # "notify") => (pc = "fanout" /\ Completed)
       /\ queue' # queue =>
              /\ pc = "notify"
              /\ orders' = orders
              /\ \A k \in DOMAIN orderValues : HasRow(orders, orderValues[k].id)
       /\ \A e \in DOMAIN queue' : HasRow(orders', queue'[e].id)]_vars

\* The bulk insert of a batch of two is done, one order was accepted and the
\* other was not, and nothing is enqueued yet.
C12_Witness ==
    /\ pc = "notify"
    /\ Len(batch) = 2
    /\ queue = <<>>
    /\ \E i, j \in DOMAIN task :
          /\ task[i].status = "success"
          /\ task[j].status # "success"
          /\ HasRow(orders, hash(batch[i]))

\* The events a step appends to the queue.
Added == SubSeq(queue', Len(queue) + 1, Len(queue'))

Returns == pc' = "returned" /\ pc # "returned"

\* C13: when a save call returns it has enqueued, for every identity, as
\* many events as the call has success outcomes of that identity, each a
\* new-order event with context new-order-<identity>; so one event for every
\* success outcome and none for an order with another status or without an
\* outcome.  No other step enqueues anything.
C13_Notification ==
    [][/\ Len(queue') >= Len(queue)
       /\ SubSeq(queue', 1, Len(queue)) = queue
       /\ ~Returns => queue' = queue
       /\ Returns =>
             /\ \A k \in DOMAIN Added :
                    /\ Added[k].trigger = "new-order"
                    /\ Added[k].context = <<"new-order", Added[k].id>>
             /\ \A id \in {hash(batch[i]) : i \in DOMAIN batch}
                              \cup {Added[k].id : k \in DOMAIN Added} :
                    Cardinality({k \in DOMAIN Added : Added[k].id = id})
                      = Cardinality({k \in DOMAIN results :
                                        results[k] = [id |-> id, status |-> "success"]})]_vars

\* The first call returned: one order of two was accepted, the other was
\* rejected, and one event is in the queue.
C13_Witness ==
    /\ pc = "returned"
    /\ calls = 1
    /\ Len(batch) = 2
    /\ Len(queue) = 1
    /\ \E k, l \in DOMAIN results :
          /\ results[k].status = "success"
          /\ results[l].status \notin {"success", "none"}
          /\ queue[1].context = <<"new-order", results[k].id>>

\* The handler at position i got past offChainCheck and the token set kinds
\* and has returned: it came to the price.
CameToPrice(i) ==
    /\ task[i].pc = "done"
    /\ task[i].checker \notin {"none", "other"}
    /\ IsSingleToken(batch[i])

\* C14 as stated: an order that comes to the price computation with a price
\* of zero (a total of zero, or an erc1155 total below the quantity) ends
\* with a reported status other than success and without a row.
C14_ZeroPriceGuard ==
    \A i \in DOMAIN task :
        (CameToPrice(i) /\ StatedPrice(batch[i]) = 0)
        => /\ \E k \in DOMAIN results :
                 results[k].id = hash(batch[i]) /\ results[k].status # "success"
           /\ RowsOf(orderValues, hash(batch[i])) = {}
           /\ ~HasRow(orders, hash(batch[i]))

\* The checks in the stated order, each as the specification states it, for
\* the order at position i: the table as it was when the call started, the
\* time its expiry check read, and what the checker answered.
FirstFailing(i) ==
    LET o == batch[i] IN
    CASE HasRow(before, hash(o)) -> "already-exists"
      [] getContractKind(o.nft) = "null" -> "unknown-order-kind"
      [] \E r \in before : SameNonce(o, getContractKind(o.nft), r) -> "duplicated-nonce"
      [] task[i].at >= o.expiry -> "expired"
      [] PolicyViolated(o) -> "unsupported-payment-token"
      [] o.taker # AddressZero -> "unsupported-taker"
      [] ~o.wellFormed -> "invalid"
      [] o.signature # "good" -> "invalid-signature"
      [] task[i].checker = "other" -> "not-fillable"
      [] o.kind \notin {"erc721-single-token", "erc1155-single-token"} -> "invalid-token-set"
      [] StatedBps(o) > 10000 -> "fees-too-high"
      [] OTHER -> "success"

\* C15 as stated: an order of a price other than zero whose handler returned
\* an outcome is reported with
\* the status of the first failing check in the order existence, asset
\* kind, nonce, expiry, payment token, taker, validity, signature,
\* fillability, token set, fee bound; and after a failing check neither the
\* kind lookup nor the checker is called.
C15_PipelineOrder ==
    \A i \in DOMAIN task :
        (task[i].pc = "done" /\ ~task[i].thrown /\ StatedPrice(batch[i]) # 0)
        => /\ task[i].status = FirstFailing(i)
           /\ task[i].status = "already-exists" => task[i].kind = "null"
           /\ task[i].status \in {"already-exists", "unknown-order-kind", "duplicated-nonce",
                                   "expired", "unsupported-payment-token", "unsupported-taker",
                                   "invalid", "invalid-signature"}
                 => task[i].checker = "none"

\* The fillability and approval fields the specification states for what the
\* checker answered.
StatedFields(c) ==
    CASE c = "no-balance-no-approval" -> <<"no-balance", "no-approval">>
      [] c = "no-approval" -> <<"fillable", "no-approval">>
      [] c = "no-balance" -> <<"no-balance", "approved">>
      [] OTHER -> <<"fillable", "approved">>

FieldsOf(r) == <<r.fillability_status, r.approval_status>>

\* C16: an order whose checker call fails with no-balance-no-approval,
\* no-approval or no-balance is not rejected for it: it goes on to the later
\* checks and, when they pass, its row is submitted and persisted with
\* (no-balance, no-approval), (fillable, no-approval), (no-balance, approved).
\* Any other failure of the checker gives not-fillable and no row.
C16_Recoverable ==
    \A i \in DOMAIN task :
        (task[i].pc = "done" /\ ~task[i].thrown /\ task[i].checker # "none")
        => LET c == task[i].checker
               id == hash(batch[i])
           IN  IF c = "other"
               THEN /\ task[i].status = "not-fillable"
                    /\ RowsOf(orderValues, id) = {}
                    /\ ~HasRow(orders, id)
               ELSE /\ task[i].status \in {"success", "invalid-token-set", "fees-too-high"}
                    /\ task[i].status = "success" =>
                          /\ \E k \in RowsOf(orderValues, id) :
                                 FieldsOf(orderValues[k]) = StatedFields(c)
                          /\ pc = "returned" =>
                                 \E r \in orders : r.id = id /\ FieldsOf(r) = StatedFields(c)

\* An order without balance and approval, persisted.
C16_Witness ==
    /\ pc = "returned"
    /\ \E i \in DOMAIN task :
          /\ task[i].checker = "no-balance-no-approval"
          /\ \E r \in orders :
                /\ r.id = hash(batch[i])
                /\ FieldsOf(r) = <<"no-balance", "no-approval">>

\* C17 as stated: whatever save calls this process has made, the orders
\* table holds no two opendao-erc1155 rows of one maker and nonce.
C17_Erc1155NonceUnique ==
    otherWrites = 0 =>
        \A r1, r2 \in orders :
            (/\ r1.kind = <<"opendao", "erc1155">>
             /\ r2.kind = <<"opendao", "erc1155">>
             /\ r1.maker = r2.maker
             /\ r1.nonce = r2.nonce)
            => r1 = r2

\* C18 as stated: a getOrInsert(s) that starts after a getOrInsert(s) has
\* completed returns the id that one returned, and sources_v2 never holds
\* two rows of one name, however the calls interleave.
C18_StableSource ==
    /\ \A c \in DOMAIN call :
          (call[c].op = "getOrInsert" /\ call[c].pc = "done" /\ call[c].known # 0)
          => call[c].ret = call[c].known
    /\ \A r1, r2 \in sources_v2 : r1.name = r2.name => r1 = r2

\* C19 as stated: every getInstance call that has returned got the one
\* instance, after its first loadData had finished, and with its maps
\* filled when sources_v2 holds rows.
C19_InitializeOnce ==
    \A c \in DOMAIN call :
        (call[c].op = "getInstance" /\ call[c].pc = "done")
        => /\ call[c].got = 1
           /\ call[c].sawLoaded
           /\ ~call[c].sawStale

\* The (hash, number) row the last call into the block store names.
Named == [hash |-> toBuffer(lastOp.hash), number |-> lastOp.number]

\* C20: saveBlock adds its pair and nothing else, and changes nothing when
\* the pair is stored already; deleteBlock removes its pair and no other
\* row, whatever else is stored at that number; getBlocks changes nothing
\* and returns, with the number asked for, the hashes stored at it.
C20_BlockStore ==
    /\ lastOp.op = "saveBlock" =>
          /\ blocks = lastOp.before \cup {Named}
          /\ Named \in lastOp.before => blocks = lastOp.before
    /\ lastOp.op = "deleteBlock" =>
          blocks = lastOp.before \ {Named}
    /\ lastOp.op = "getBlocks" =>
          /\ blocks = lastOp.before
          /\ \A b \in lastOp.ret : b.number = lastOp.number
          /\ {toBuffer(b.hash) : b \in lastOp.ret}
                = {b.hash : b \in {x \in blocks : x.number = lastOp.number}}
          /\ Cardinality(lastOp.ret)
                = Cardinality({x \in blocks : x.number = lastOp.number})

\* A delete took one of two hashes stored at a number and left the other.
C20_Witness ==
    /\ lastOp.op = "deleteBlock"
    /\ Named \in lastOp.before
    /\ \E b \in blocks : b.number = lastOp.number /\ b.hash # Named.hash

====
